---- MODULE Spec2Model ----
(***************************************************************************)
(* Model of the conjure station core:                                      *)
(*   application/main.go          registration ingest over ZMQ and the     *)
(*                                transparent-proxy connection dispatcher  *)
(*   application/detector/main.go passive packet-capture detector          *)
(* The registration library (dd "./lib") is not part of the sources; the   *)
(* operations it exports are modelled from the design document and are     *)
(* marked as such.                                                         *)
(***************************************************************************)
EXTENDS Integers, Sequences, FiniteSets, TLC

VARIABLES
    \* ---- station (application/main.go) ----
    table,        \* RegistrationManager's registration table (set of registrations)
    implemented,  \* protocol ids for which ProxyFactory has a handler variant
    ingestPc,     \* position of get_zmq_updates inside one loop iteration
    newReg,       \* get_zmq_updates' local newReg
    lastRecv,     \* what the ingest loop did with the last message
    mainPc,       \* position of main's accept loop
    acceptErr,    \* AcceptTCP returned an error
    connPc,       \* per connection: position of its handleNewConn goroutine
    connDst,      \* per connection: originalDstIP
    connReg,      \* per connection: reg returned by CheckRegistration
    connCall,     \* per connection: arguments the proxy handler was invoked with
    connClosed,   \* per connection: clientConn.Close() has run
    connPath,     \* per connection: the return path handleNewConn took
    \* ---- detector (application/detector/main.go) ----
    filterList,   \* Detector.FilterList
    filter,       \* the filter Run compiled and applied to the capture handle
    tags,         \* Detector.Tags
    registered,   \* destination addresses Detector.IsRegistered answers true for
    stats,        \* Detector.stats
    detExit,      \* Detector.exit
    detPc,        \* position of Detector.Run
    statsPc,      \* position of spawnStatsThread
    captured,     \* frames the capture source has delivered
    lastPkt,      \* what handlePacket did with the last frame
    handled,      \* totals over all frames handlePacket has counted
    reported,     \* totals over all snapshots the reporting task has logged
    lateReports   \* reports the reporting task started after exit was set

stationVars == <<table, implemented, ingestPc, newReg, lastRecv, mainPc,
                 acceptErr, connPc, connDst, connReg, connCall, connClosed, connPath>>

detVars == <<filterList, filter, tags, registered, stats, detExit, detPc, statsPc,
             captured, lastPkt, handled, reported, lateReports>>

vars == <<stationVars, detVars>>

----------------------------------------------------------------------------
(* Bounds of the model *)

\* connections the listener may accept in one run
MaxConns == 2
\* frames the capture source may deliver in one run
MaxFrames == 3

----------------------------------------------------------------------------
(* Wire message: recieve_zmq_message, application/main.go:93-132 *)

SecretLen == 32
FixedLen == 6
FlagsLen == 1
MinPayloadLen == 16

Min(a, b) == IF a < b THEN a ELSE b

\* offset of the byte that follows the secret and the fixed block
FlagsOff == SecretLen + FixedLen + FlagsLen

\* line 107: len(msg) < 32 + 6 + 1 + 16
MinMsgLen == SecretLen + FixedLen + FlagsLen + MinPayloadLen

IsShortLoose(msg) == Len(msg) < FlagsOff
IsShort(msg) == Len(msg) < MinMsgLen

\* a zeroed Go array of n bytes
Zeros(n) == [i \in 1..n |-> 0]

\* bytes.Reader.Read(buf) at offset off: copies min(len(buf), remaining) bytes
ReadCount(msg, off, n) == Min(n, Len(msg) - off)

ReadInto(buf, msg, off) ==
    LET n == ReadCount(msg, off, Len(buf))
    IN  SubSeq(msg, off + 1, off + n) \o SubSeq(buf, n + 1, Len(buf))

ReaderAdvance(msg, off, n) == off + ReadCount(msg, off, n)

\* binary.BigEndian.Uint16
Uint16BE(b) == b[1] * 256 + b[2]

\* proto.unmarshal of the client-to-station record: a zero tag byte is not
\* a valid field key, anything else parses; an empty buffer is the empty record
ParseOk(bs) == \A i \in 1..Len(bs) : bs[i] # 0

Unmarshal(bs) ==
    IF ParseOk(bs) /\ Len(bs) > 0 THEN [covert |-> bs[1]] ELSE [covert |-> 0]

\* dd.generateKeys: deterministic expansion of the 32-byte secret; ok = FALSE
\* is the error return
NoKeys == [seed |-> 0, tail |-> 0]

GenerateKeys(secret, ok) ==
    IF ok THEN [seed |-> secret[1], tail |-> secret[SecretLen]] ELSE NoKeys

\* regManager.NewRegistration(clientToStation, conjureKeys, flags): builds the
\* value, does not insert it
NewRegistration(c2s, keys, flags) ==
    [phantomAddress |-> keys.seed, keys |-> keys,
     covert |-> c2s.covert, flags |-> flags[1]]

NIL == [phantomAddress |-> -1]

\* The reads of recieve_zmq_message in program order (lines 112-130).
DecodeSecret1(msg) == ReadInto(Zeros(SecretLen), msg, 0)
OffFixed(msg) == ReaderAdvance(msg, 0, SecretLen)
DecodeFixed(msg) == ReadInto(Zeros(FixedLen), msg, OffFixed(msg))
OffThird(msg) == ReaderAdvance(msg, OffFixed(msg), FixedLen)
\* line 116 reads into sharedSecret a second time
DecodeSecret(msg) == ReadInto(DecodeSecret1(msg), msg, OffThird(msg))
OffPayload(msg) == ReaderAdvance(msg, OffThird(msg), SecretLen)
\* flags is declared and never written
DecodeFlags(msg) == Zeros(FlagsLen)
VspSize(msg) == Uint16BE(DecodeFixed(msg))
DecodeC2SBytes(msg) == ReadInto(Zeros(VspSize(msg)), msg, OffPayload(msg))

\* recieve_zmq_message on a received message: <<newReg, err>>
RecieveZmqMessage(msg, deriveOk) ==
    IF IsShort(msg)
    THEN <<NIL, "short">>
    ELSE <<NewRegistration(Unmarshal(DecodeC2SBytes(msg)),
                           GenerateKeys(DecodeSecret(msg), deriveOk),
                           DecodeFlags(msg)),
           "nil">>

----------------------------------------------------------------------------
(* Messages the publisher may send *)

MsgLens == {38, 39, 54, 55, 74}
VspSizes == {0, 4, 40}
SecretBytes == {1}
FlagBytes == {1, 2}
PayloadBytes == {0, 3}

\* <<len, s, v, f, q>> stands for the message
\* [secret: s x32][payload length v big-endian, 4 more bytes][byte f][3 x31][q ...]
\* cut to len bytes
MkMsg(p) ==
    [i \in 1..p[1] |->
        IF i <= SecretLen THEN p[2]
        ELSE IF i = SecretLen + 1 THEN p[3] \div 256
        ELSE IF i = SecretLen + 2 THEN p[3] % 256
        ELSE IF i <= SecretLen + FixedLen THEN 0
        ELSE IF i = FlagsOff THEN p[4]
        ELSE IF i <= FlagsOff + SecretLen - 1 THEN 3
        ELSE p[5]]

MsgParams == MsgLens \X SecretBytes \X VspSizes \X FlagBytes \X PayloadBytes

\* the declared payload length runs past the end of the message
Overrun(msg) ==
    /\ Len(msg) >= FlagsOff
    /\ VspSize(msg) > Len(msg) - FlagsOff

\* what recieve_zmq_message makes of each message
Received(p, deriveOk) ==
    LET msg == MkMsg(p)
        res == RecieveZmqMessage(msg, deriveOk)
        short == res[2] = "short"
    IN  [reg |-> res[1], err |-> res[2], len |-> Len(msg),
         deriveOk |-> deriveOk, overrun |-> Overrun(msg),
         parseOk |-> short \/ ParseOk(DecodeC2SBytes(msg)),
         c2sFull |-> short \/ ReadCount(msg, OffPayload(msg), VspSize(msg))
                                 = VspSize(msg),
         complete |-> Len(msg) = SecretLen + FixedLen + SecretLen + VspSize(msg),
         \* the secret handed to generateKeys is the message's first 32 bytes
         secretIsHead |-> short \/ DecodeSecret(msg) = SubSeq(msg, 1, SecretLen),
         \* the flags handed to NewRegistration are the byte after the fixed block
         flagsIsByte |-> short \/ DecodeFlags(msg) = SubSeq(msg, FlagsOff, FlagsOff),
         reads |-> IF short THEN 0 ELSE 4]

Receptions == {Received(p, ok) : p \in MsgParams, ok \in BOOLEAN}

----------------------------------------------------------------------------
(* RegistrationManager (dd "./lib") *)

\* liveness: the address currently has an active, unexpired registration
IsLiveNever(t, addr) == FALSE
IsLive(t, addr) == \E r \in t : r.phantomAddress = addr

\* reg.PhantomIsLive()
PhantomIsLive(t, reg) == IsLive(t, reg.phantomAddress)

\* regManager.AddRegistration(reg): inserts iff no live registration owns the
\* address
AddRegistration(t, reg) ==
    IF IsLive(t, reg.phantomAddress) THEN t ELSE t \cup {reg}

\* regManager.CheckRegistration(addr): the live registration of addr, or nil
CheckRegistrationResults(t, addr) ==
    IF IsLive(t, addr) THEN {r \in t : r.phantomAddress = addr} ELSE {NIL}

\* dd.ProxyFactory(reg, protocol): the handler variant, or nil
ProxyFactory(reg, protocol) ==
    IF protocol \in implemented THEN "handler" ELSE "nil"

----------------------------------------------------------------------------
(* get_zmq_updates, application/main.go:78-90 *)

\* line 81: err != nil || newReg == nil  ->  continue
AfterRejectExit == "exited"
AfterReject == "recv"

\* line 85: if !newReg.PhantomIsLive()
ShouldAddInverted(live) == live
ShouldAdd(live) == ~live

NoRecv == [kind |-> "none", len |-> 0, overrun |-> FALSE, parseOk |-> TRUE,
           c2sFull |-> TRUE, deriveOk |-> TRUE, err |-> "nil", built |-> FALSE,
           addr |-> -1, reads |-> 0, secretIsHead |-> TRUE,
           flagsIsByte |-> TRUE, afterReject |-> FALSE,
           outcome |-> "none"]

connVars == <<mainPc, acceptErr, connPc, connDst, connReg, connCall, connClosed,
              connPath>>

\* sub.RecvBytes fails (line 103): recieve_zmq_message returns the error
IngestRecvError ==
    /\ mainPc = "accept"
    /\ ingestPc = "recv"
    /\ lastRecv' = [NoRecv EXCEPT !.kind = "recverr", !.err = "recv",
                                  !.outcome = "rejected",
                                  !.afterReject = lastRecv.outcome = "rejected"]
    /\ newReg' = NIL
    /\ ingestPc' = AfterReject
    /\ UNCHANGED <<table, implemented, connVars, detVars>>

\* lines 80-85: receive and decode one message, test the phantom's liveness
IngestRecvFrom(published) ==
    /\ mainPc = "accept"
    /\ ingestPc = "recv"
    /\ \E got \in published :
        LET reg == got.reg
            rejected == got.err # "nil" \/ reg = NIL
            live == IF rejected THEN FALSE ELSE PhantomIsLive(table, reg)
            add == ~rejected /\ ShouldAdd(live)
        IN  \* newReg is dead once the iteration drops it
            /\ newReg' = IF add THEN reg ELSE NIL
            /\ ingestPc' = IF rejected THEN AfterReject
                           ELSE IF add THEN "add" ELSE "recv"
            /\ lastRecv' =
                 [kind |-> "msg", len |-> got.len, overrun |-> got.overrun,
                  parseOk |-> got.parseOk, c2sFull |-> got.c2sFull,
                  deriveOk |-> got.deriveOk, err |-> got.err, built |-> reg # NIL,
                  addr |-> reg.phantomAddress, reads |-> got.reads,
                  secretIsHead |-> got.secretIsHead,
                  flagsIsByte |-> got.flagsIsByte,
                  afterReject |-> lastRecv.outcome = "rejected",
                  outcome |-> IF rejected THEN "rejected"
                              ELSE IF add THEN "pending" ELSE "dropped"]
    /\ UNCHANGED <<table, implemented, connVars, detVars>>

\* lines 86-88: regManager.AddRegistration(newReg)
IngestAdd ==
    /\ mainPc = "accept"
    /\ ingestPc = "add"
    /\ table' = AddRegistration(table, newReg)
    /\ lastRecv' = [lastRecv EXCEPT !.outcome = "added"]
    /\ newReg' = NIL
    /\ ingestPc' = "recv"
    /\ UNCHANGED <<implemented, connVars, detVars>>

\* RegistrationManager.expire: a registration past its TTL leaves the table
Expire ==
    /\ mainPc = "accept"
    /\ \E r \in table : table' = table \ {r}
    /\ UNCHANGED <<implemented, ingestPc, newReg, lastRecv, connVars, detVars>>

IngestRecv == IngestRecvFrom(Receptions)

----------------------------------------------------------------------------
(* main's accept loop and handleNewConn, application/main.go:31-61, 196-204 *)

Conns == 1..MaxConns

\* destinations the redirected connections were originally addressed to
Addrs == {1, 2}

\* line 54: dd.ProxyFactory(reg, 0)
ProxyProtocol == 0

\* line 56: proxyHandler(reg, clientConn, originalDstIP)
NoCall == <<>>
HandlerCallLocalAddr(reg, conn, dst) == <<reg, conn, 0>>
HandlerCall(reg, conn, dst) == <<reg, conn, dst>>

\* line 32: defer clientConn.Close() runs on every return path
CloseOnlyAfterHandler(path) == path = "handlerReturn"
CloseOnReturn(path) == TRUE

ingestVars == <<table, implemented, ingestPc, newReg, lastRecv>>

\* line 203: go handleNewConn(regManager, newConn): main does not wait for
\* the connection's task and is back at AcceptTCP whatever the tasks do
AcceptBusyInline(pcs) == \E c \in Conns : pcs[c] \notin {"idle", "done"}
AcceptBusy(pcs) == FALSE

\* line 197-203: AcceptTCP returns a connection, main spawns its goroutine
Accept(c) ==
    /\ mainPc = "accept"
    /\ ~AcceptBusy(connPc)
    /\ connPc[c] = "idle"
    /\ \A d \in Conns : d < c => connPc[d] # "idle"
    /\ connPc' = [connPc EXCEPT ![c] = "start"]
    /\ UNCHANGED <<ingestVars, mainPc, acceptErr, connDst, connReg, connCall,
                   connClosed, connPath, detVars>>

\* line 198-200: AcceptTCP fails, main returns and the process ends
AcceptError ==
    /\ mainPc = "accept"
    /\ mainPc' = "exited"
    /\ acceptErr' = TRUE
    /\ UNCHANGED <<ingestVars, connPc, connDst, connReg, connCall, connClosed,
                   connPath, detVars>>

\* a return statement of handleNewConn: the deferred Close is pending
Return(c, path) ==
    /\ connPc' = [connPc EXCEPT ![c] = "ret"]
    /\ connPath' = [connPath EXCEPT ![c] = path]

\* lines 34-38: clientConn.File() fails
ConnFileError(c) ==
    /\ mainPc = "accept"
    /\ connPc[c] = "start"
    /\ Return(c, "fdErr")
    /\ UNCHANGED <<ingestVars, mainPc, acceptErr, connDst, connReg, connCall,
                   connClosed, detVars>>

\* lines 42-46: getOriginalDst fails
ConnDstError(c) ==
    /\ mainPc = "accept"
    /\ connPc[c] = "start"
    /\ Return(c, "dstErr")
    /\ UNCHANGED <<ingestVars, mainPc, acceptErr, connDst, connReg, connCall,
                   connClosed, detVars>>

\* lines 42-60: the original destination is recovered and looked up; on a hit
\* the handler ProxyFactory selects is invoked
ConnDispatch(c) ==
    /\ mainPc = "accept"
    /\ connPc[c] = "start"
    /\ \E dst \in Addrs :
        \E reg \in CheckRegistrationResults(table, dst) :
            /\ connDst' = [connDst EXCEPT ![c] = dst]
            /\ connReg' = [connReg EXCEPT ![c] = reg]
            /\ IF reg = NIL
               THEN /\ Return(c, "miss")
                    /\ UNCHANGED connCall
               ELSE IF ProxyFactory(reg, ProxyProtocol) # "nil"
               THEN /\ connCall' = [connCall EXCEPT ![c] = HandlerCall(reg, c, dst)]
                    /\ connPc' = [connPc EXCEPT ![c] = "forwarding"]
                    /\ UNCHANGED connPath
               ELSE /\ Return(c, "nilHandler")
                    /\ UNCHANGED connCall
    /\ UNCHANGED <<ingestVars, mainPc, acceptErr, connClosed, detVars>>

\* line 56: the proxy handler returns (either side closed, or an I/O error)
HandlerReturn(c) ==
    /\ mainPc = "accept"
    /\ connPc[c] = "forwarding"
    /\ Return(c, "handlerReturn")
    /\ UNCHANGED <<ingestVars, mainPc, acceptErr, connDst, connReg, connCall,
                   connClosed, detVars>>

\* line 32: the deferred clientConn.Close(), then the goroutine ends
ConnClose(c) ==
    /\ mainPc = "accept"
    /\ connPc[c] = "ret"
    /\ connClosed' = [connClosed EXCEPT ![c] = CloseOnReturn(connPath[c])]
    /\ connPc' = [connPc EXCEPT ![c] = "done"]
    /\ UNCHANGED <<ingestVars, mainPc, acceptErr, connDst, connReg, connCall,
                   connPath, detVars>>

ConnStep(c) ==
    \/ ConnFileError(c)
    \/ ConnDstError(c)
    \/ ConnDispatch(c)
    \/ ConnClose(c)

----------------------------------------------------------------------------
(* Detector, application/detector/main.go *)

Hosts == {"a", "b"}
TagSets == {<<>>, <<"tag">>}

\* a captured frame: whether it decodes to a network layer, the length of its
\* destination address, its capture length, whether it has a TCP layer and an
\* application layer, and whether the payload contains the tag
Frames ==
    {f \in [hasNet : BOOLEAN, dstLen : {4, 6, 16}, capLen : {1},
            hasTCP : BOOLEAN, hasApp : BOOLEAN, hasTag : BOOLEAN,
            src : Hosts, dst : Hosts] :
        /\ f.src # f.dst
        /\ f.hasTag => f.hasApp
        /\ f.hasApp => f.hasTCP
        /\ ~f.hasNet => (~f.hasTCP /\ f.dstLen = 4 /\ f.src = "a")}

FilterLists == {<<>>, <<"b">>, <<"b", "a">>}

\* lines 146-149: one " and not src <entry>" clause per entry, in list order
RECURSIVE NotSrcClauses(_)
NotSrcClauses(entries) ==
    IF entries = <<>> THEN <<>>
    ELSE <<"and not src", Head(entries)>> \o NotSrcClauses(Tail(entries))

\* generateFilters (lines 140-152); the filter string is kept as its tokens
generateFiltersFirstOnly(list) ==
    IF Len(list) = 0 THEN <<>> ELSE <<"tcp", "and not src", list[1]>>
generateFilters(list) ==
    IF Len(list) = 0 THEN <<>> ELSE <<"tcp">> \o NotSrcClauses(list)

\* pcap's reading of the filter (handler.SetBPFFilter, line 63): the empty
\* filter passes every frame; "tcp" passes TCP frames only; each
\* "and not src x" rejects the frames whose source is x
ExcludedSrcs(flt) ==
    {flt[i + 1] : i \in {j \in 1..(Len(flt) - 1) : flt[j] = "and not src"}}

Passes(flt, f) ==
    IF flt = <<>> THEN TRUE
    ELSE /\ flt[1] = "tcp" => f.hasTCP
         /\ f.src \notin ExcludedSrcs(flt)

\* the stats record as a sum: a + b, field by field
StatsSum(a, b) ==
    [BytesTotal |-> a.BytesTotal + b.BytesTotal,
     V4PacketCount |-> a.V4PacketCount + b.V4PacketCount,
     V6PacketCount |-> a.V6PacketCount + b.V6PacketCount]

NoStats == [BytesTotal |-> 0, V4PacketCount |-> 0, V6PacketCount |-> 0]

\* line 26-27: IsRegistered func(src, dst string, dstPort uint16) bool, a
\* predicate on the destination address
IsRegistered(src, dst, dstPort) == dst \in registered

\* lines 96-104: byte total and address-family counters
Classify(st, f) ==
    [BytesTotal |-> st.BytesTotal + f.capLen,
     V4PacketCount |-> st.V4PacketCount + (IF f.dstLen = 4 THEN 1 ELSE 0),
     V6PacketCount |-> st.V6PacketCount + (IF f.dstLen = 16 THEN 1 ELSE 0)]

\* line 103: the default case logs a warning
ClassifyWarns(f) == f.dstLen # 4 /\ f.dstLen # 16

\* lines 122-130: checkForTags dereferences packet.ApplicationLayer() for
\* every configured tag
CheckForTagsPanics(f) == Len(tags) > 0 /\ ~f.hasApp
CheckForTagsConfirmsNever(f) == FALSE
CheckForTagsConfirms(f) == Len(tags) > 0 /\ f.hasApp /\ f.hasTag

\* line 115: det.IsRegistered(dst.String(), src.String(), dstPort)
MatchCheck(f) == IsRegistered(f.dst, f.src, 443)

\* handlePacket (lines 91-118): the stages the frame went through and what
\* they did
HandlePacket(st, f) ==
    IF ~f.hasNet
    THEN \* line 92: packet.NetworkLayer() is nil
         [stats |-> st, stages |-> <<>>, warned |-> FALSE, confirmed |-> FALSE,
          forwarded |-> FALSE, panic |-> TRUE]
    ELSE IF ~f.hasTCP
    THEN [stats |-> Classify(st, f), stages |-> <<"classify", "tcp">>,
          warned |-> ClassifyWarns(f), confirmed |-> FALSE, forwarded |-> FALSE,
          panic |-> FALSE]
    ELSE IF CheckForTagsPanics(f)
    THEN [stats |-> Classify(st, f), stages |-> <<"classify", "tcp", "tags">>,
          warned |-> ClassifyWarns(f), confirmed |-> FALSE, forwarded |-> FALSE,
          panic |-> TRUE]
    ELSE [stats |-> Classify(st, f),
          stages |-> <<"classify", "tcp", "tags", "match">>,
          warned |-> ClassifyWarns(f), confirmed |-> CheckForTagsConfirms(f),
          forwarded |-> MatchCheck(f), panic |-> FALSE]

NoPkt == [kind |-> "none"]

\* the fields of Detector that Run only reads
detConfig == <<filterList, filter, tags, registered>>

\* lines 71-73: the capture source delivers a frame, Run hands it to
\* handlePacket; a panic ends the process
Capture ==
    /\ detPc = "run"
    /\ captured < MaxFrames
    /\ \E f \in Frames :
        LET res == HandlePacket(stats, f)
        IN  /\ Passes(filter, f)
            /\ stats' = res.stats
            /\ handled' = HandlePacket(handled, f).stats
            /\ lastPkt' = [kind |-> "frame", frame |-> f,
                           dV4 |-> res.stats.V4PacketCount - stats.V4PacketCount,
                           dV6 |-> res.stats.V6PacketCount - stats.V6PacketCount,
                           stages |-> res.stages, warned |-> res.warned,
                           confirmed |-> res.confirmed,
                           forwarded |-> res.forwarded, panic |-> res.panic]
            /\ detPc' = IF res.panic THEN "panic" ELSE "run"
    /\ captured' = captured + 1
    /\ UNCHANGED <<stationVars, detConfig, detExit, statsPc, reported, lateReports>>

\* lines 71-76: the packet source closes, Run sets exit and returns
CaptureEnd ==
    /\ detPc = "run"
    /\ detExit' = TRUE
    /\ detPc' = "ended"
    /\ UNCHANGED <<stationVars, detConfig, stats, statsPc, captured, lastPkt,
                   handled, reported, lateReports>>

\* line 187-188: Run has returned, main returns and the process ends
DetMainReturn ==
    /\ detPc = "ended"
    /\ detPc' = "exited"
    /\ UNCHANGED <<stationVars, detConfig, stats, detExit, statsPc, captured,
                   lastPkt, handled, reported, lateReports>>

DetAlive == detPc \in {"run", "ended"}

\* line 81: det.Logger.Println(det.stats.Report())
StatsReport ==
    /\ DetAlive
    /\ statsPc = "report"
    /\ statsPc' = "reset"
    /\ reported' = StatsSum(reported, stats)
    /\ lateReports' = lateReports + (IF detExit THEN 1 ELSE 0)
    /\ UNCHANGED <<stationVars, detConfig, stats, detExit, detPc, captured,
                   lastPkt, handled>>

\* line 82: det.stats.Reset()
StatsReset ==
    /\ DetAlive
    /\ statsPc = "reset"
    /\ stats' = NoStats
    /\ statsPc' = "check"
    /\ UNCHANGED <<stationVars, detConfig, detExit, detPc, captured, lastPkt,
                   handled, reported, lateReports>>

\* lines 84-87: return when exit is set, else sleep and loop
AfterCheckReturns(exit) == "returned"
AfterCheck(exit) == IF exit THEN "returned" ELSE "report"

StatsCheckExit ==
    /\ DetAlive
    /\ statsPc = "check"
    /\ statsPc' = AfterCheck(detExit)
    /\ UNCHANGED <<stationVars, detConfig, stats, detExit, detPc, captured,
                   lastPkt, handled, reported, lateReports>>

----------------------------------------------------------------------------
StationInit ==
    /\ table = {}
    /\ ingestPc = "recv"
    /\ newReg = NIL
    /\ lastRecv = NoRecv
    /\ acceptErr = FALSE
    /\ connPc = [c \in Conns |-> "idle"]
    /\ connDst = [c \in Conns |-> 0]
    /\ connReg = [c \in Conns |-> NIL]
    /\ connCall = [c \in Conns |-> NoCall]
    /\ connClosed = [c \in Conns |-> FALSE]
    /\ connPath = [c \in Conns |-> "none"]

DetectorInit ==
    /\ stats = NoStats
    /\ detExit = FALSE
    /\ statsPc = "report"
    /\ captured = 0
    /\ lastPkt = NoPkt
    /\ handled = NoStats
    /\ reported = NoStats
    /\ lateReports = 0

\* the station process after main has started the ingest goroutine and
\* bound its listener; the detector is a separate program, not started
Init ==
    /\ StationInit
    /\ mainPc = "accept"
    /\ implemented \in {{}, {0}}
    /\ DetectorInit
    /\ filterList = <<>>
    /\ filter = <<>>
    /\ tags = <<>>
    /\ registered = {}
    /\ detPc = "off"

\* the detector process after Run has opened the device and started the
\* reporting goroutine; the station is not started
DetInit ==
    /\ StationInit
    /\ mainPc = "off"
    /\ implemented = {}
    /\ DetectorInit
    /\ filterList \in FilterLists
    /\ filter = generateFilters(filterList)
    /\ tags \in TagSets
    /\ registered \in {{}, {"a"}}
    /\ detPc = "run"

\* the registration path: ingest loop and expiry
Next ==
    \/ IngestRecvError
    \/ IngestRecv
    \/ IngestAdd
    \/ Expire

Spec == Init /\ [][Next]_vars

----------------------------------------------------------------------------
(* Properties of the registration path *)

\* registrations of the table that own the address
Owners(t, addr) == {r \in t : r.phantomAddress = addr}

\* the ingest loop has just taken a message off the socket
Received1 == ingestPc = "recv" /\ lastRecv' # lastRecv /\ lastRecv'.kind = "msg"

\* the message was accepted, read in full, parsed and its keys derived
WellFormed(rcv) ==
    /\ rcv.kind = "msg"
    /\ rcv.err = "nil"
    /\ rcv.c2sFull
    /\ rcv.parseOk
    /\ rcv.deriveOk

C3_ShortRejected ==
    [][(Received1 /\ lastRecv'.len <= FlagsOff)
        => /\ lastRecv'.err = "short"
           /\ lastRecv'.reads = 0
           /\ ~lastRecv'.built
           /\ newReg' = NIL
           /\ ingestPc' = "recv"
           /\ table' = table]_vars

\* the 39-byte message was rejected as short
C3_Witness ==
    /\ lastRecv.kind = "msg"
    /\ lastRecv.len = FlagsOff
    /\ lastRecv.err = "short"

\* C4: a message that passes the minimum-length check and whose 16-bit
\* payload-length prefix exceeds the bytes remaining after the fixed fields
\* fails with the short-message error and no registration is built from it.
C4_OverrunRejected ==
    (lastRecv.kind = "msg" /\ lastRecv.len >= MinMsgLen /\ lastRecv.overrun)
        => (lastRecv.err = "short" /\ ~lastRecv.built)

\* C5: a message whose variable-length segment does not parse as a
\* client-request record fails with the malformed-payload error and no
\* registration is built from it.
C5_MalformedRejected ==
    (lastRecv.kind = "msg" /\ ~lastRecv.parseOk)
        => (lastRecv.err = "malformed" /\ ~lastRecv.built)

\* C6: when key derivation fails for a decoded message the message is
\* discarded: no registration is built from it and nothing is inserted.
C6_UnderivableDiscarded ==
    (lastRecv.kind = "msg" /\ lastRecv.len >= MinMsgLen /\ ~lastRecv.deriveOk)
        => (~lastRecv.built /\ lastRecv.outcome = "rejected")

C12_SecretIsFirst32 ==
    (lastRecv.kind = "msg" /\ lastRecv.err = "nil") => lastRecv.secretIsHead

\* C13: for every message recieve_zmq_message accepts, the flags passed to
\* NewRegistration equal the message's flags byte, the single byte that
\* follows the 32-byte secret and the 6-byte fixed block.
C13_FlagsAreFlagsByte ==
    (lastRecv.kind = "msg" /\ lastRecv.err = "nil") => lastRecv.flagsIsByte

\* what a well-behaved publisher sends: messages holding exactly the bytes
\* the reads consume, which parse and whose keys derive
WellFormedReceptions ==
    {got \in Receptions :
        got.err = "nil" /\ got.complete /\ got.parseOk /\ got.deriveOk}

IngestWellFormed == IngestRecvFrom(WellFormedReceptions)

\* the dispatch path: accept loop and connection goroutines, running against
\* the ingest loop and expiry
DispatchNext ==
    \/ IngestWellFormed
    \/ IngestAdd
    \/ Expire
    \/ AcceptError
    \/ \E c \in Conns :
        \/ Accept(c)
        \/ ConnFileError(c)
        \/ ConnDstError(c)
        \/ ConnDispatch(c)
        \/ HandlerReturn(c)
        \/ ConnClose(c)

DispatchSpec == Init /\ [][DispatchNext]_vars

\* the Go scheduler runs every goroutine that can take a step; when a handler
\* returns is up to the peers
FairDispatchSpec ==
    DispatchSpec /\ \A c \in Conns : WF_vars(ConnStep(c))

----------------------------------------------------------------------------
(* Properties of the dispatch path *)

\* the original destination of connection c was recovered and looked up
Recovered(c) == connDst[c] # 0

\* C8 as stated: once the destination is recovered, a registration returned
\* by CheckRegistration means the handler is invoked with that registration,
\* the connection and the destination; nil means no handler is invoked and
\* the connection is closed.
C8_HitAlwaysInvokes ==
    \A c \in Conns :
        /\ (Recovered(c) /\ connReg[c] # NIL)
            => connCall[c] = <<connReg[c], c, connDst[c]>>
        /\ (Recovered(c) /\ connReg[c] = NIL)
            => /\ connCall[c] = NoCall
               /\ connPc[c] \in {"ret", "done"}
               /\ connPc[c] = "done" => connClosed[c]

\* C8, amended: once the destination is recovered, a registration returned
\* by CheckRegistration for which ProxyFactory yields a handler means that
\* handler is invoked with exactly that registration, the connection and
\* the destination; when CheckRegistration returns nil, or ProxyFactory
\* yields no handler, no handler is invoked and the connection is closed.
C8_HitInvokesSelectedHandler ==
    \A c \in Conns :
        /\ connCall[c] # NoCall => Recovered(c) /\ connReg[c] # NIL
        /\ (Recovered(c) /\ connReg[c] # NIL
              /\ ProxyFactory(connReg[c], ProxyProtocol) # "nil")
            => /\ connCall[c] = <<connReg[c], c, connDst[c]>>
               /\ connReg[c].phantomAddress = connDst[c]
        /\ (Recovered(c)
              /\ (connReg[c] = NIL \/ ProxyFactory(connReg[c], ProxyProtocol) = "nil"))
            => /\ connCall[c] = NoCall
               /\ connPc[c] \in {"ret", "done"}
               /\ connPc[c] = "done" => connClosed[c]

\* one connection's handler was invoked with the registration found, another
\* connection missed and was closed
C8_Witness ==
    \E c, d \in Conns :
        /\ connCall[c] = <<connReg[c], c, connDst[c]>>
        /\ connReg[c] \in table
        /\ Recovered(d) /\ connReg[d] = NIL /\ connClosed[d]

\* C9: on every return path of handleNewConn (file-descriptor error,
\* original-destination failure, lookup miss, nil handler, handler return)
\* the connection's own goroutine closes the connection, for as long as the
\* process runs; the accept loop ends only when AcceptTCP itself fails,
\* never because of a connection.
C9_EveryPathCloses ==
    /\ \A c \in Conns :
        /\ (connPc[c] = "start")
             ~> (connClosed[c] \/ connPc[c] = "forwarding" \/ mainPc = "exited")
        /\ (connPc[c] = "ret") ~> (connClosed[c] \/ mainPc = "exited")
    /\ [](\A c \in Conns : connPc[c] = "done" => connClosed[c])
    /\ [](mainPc = "exited" => acceptErr)
    /\ [][mainPc' # mainPc => UNCHANGED <<connPc, connClosed>>]_vars

\* a connection was closed after its handler returned, another after a
\* lookup miss, and the accept loop is still accepting
C9_Witness ==
    /\ mainPc = "accept"
    /\ \E c, d \in Conns :
        /\ connClosed[c] /\ connPath[c] = "handlerReturn"
        /\ connClosed[d] /\ connPath[d] = "miss"

\* C20: the accept loop is never blocked by a connection task or by the
\* ingest loop: whatever the handlers and the ingest loop are doing, the next
\* arriving connection is accepted and handed to a task of its own, and
\* each connection is handled by exactly one task.
C20_AcceptNeverBlocked ==
    /\ [](mainPc = "accept"
            => \A c \in Conns :
                 (connPc[c] = "idle" /\ \A d \in Conns : d < c => connPc[d] # "idle")
                    => ENABLED Accept(c))
    /\ [][\A c \in Conns :
            /\ (connPc'[c] = "start" /\ connPc[c] # "start")
                 => /\ connPc[c] = "idle"
                    /\ \A d \in Conns \ {c} : connPc'[d] = connPc[d]
                    /\ UNCHANGED <<ingestPc, newReg, table>>
            /\ connPc[c] # "idle" => connPc'[c] \notin {"idle", "start"} \/ connPc'[c] = connPc[c]]_vars

\* a connection was accepted and given its task while another handler is
\* forwarding and the ingest loop waits for a message
C20_Witness ==
    \E c, d \in Conns :
        /\ connPc[c] = "forwarding"
        /\ connPc[d] = "start"
        /\ ingestPc = "recv"
        /\ mainPc = "accept"

----------------------------------------------------------------------------
(* Properties of the detector *)

\* C10: a frame whose destination address is neither 4 nor 16 bytes long
\* increments neither the v4 nor the v6 counter, is logged, and goes on
\* through the TCP check, the tag scan and the match check without a crash.
C10_OddLengthProceeds ==
    (lastPkt.kind = "frame" /\ lastPkt.frame.hasNet
        /\ lastPkt.frame.dstLen \notin {4, 16})
    => /\ lastPkt.dV4 = 0
       /\ lastPkt.dV6 = 0
       /\ lastPkt.warned
       /\ ~lastPkt.panic
       /\ Len(lastPkt.stages) >= 2

\* C11: no captured frame terminates the capture loop: for every frame the
\* capture source delivers, a frame with no network layer and a TCP frame
\* with no application payload while a tag is configured included,
\* handlePacket returns normally and the loop goes on to the next frame.
C11_NoFrameEndsCapture ==
    /\ detPc # "panic"
    /\ lastPkt.kind = "frame" => ~lastPkt.panic

\* C14: a captured TCP frame is forwarded if and only if IsRegistered holds
\* with the frame's source address as src, the frame's destination address
\* as dst and the frame's TCP destination port: the destination address
\* decides, never the source address.
C14_ForwardedIffDstRegistered ==
    (lastPkt.kind = "frame" /\ lastPkt.frame.hasTCP)
    => (lastPkt.forwarded
          <=> IsRegistered(lastPkt.frame.src, lastPkt.frame.dst, 443))

\* C15: for every captured frame without a TCP header the byte and
\* address-family counters are updated first and the frame is then dropped:
\* it never reaches the tag scan, IsRegistered is never evaluated for it and
\* it is never forwarded.
C15_NonTcpCountedThenDropped ==
    (lastPkt.kind = "frame" /\ ~lastPkt.frame.hasTCP)
    => /\ lastPkt.stages = <<"classify", "tcp">>
       /\ lastPkt.dV4 = (IF lastPkt.frame.dstLen = 4 THEN 1 ELSE 0)
       /\ lastPkt.dV6 = (IF lastPkt.frame.dstLen = 16 THEN 1 ELSE 0)
       /\ ~lastPkt.forwarded
       /\ ~lastPkt.confirmed
       /\ ~lastPkt.panic

\* C16: once the capture loop has ended and set exit, the reporting task
\* eventually exits (at the latest with the process), having started at most
\* one further report; it never exits while the capture loop is running.
C16_ReporterExitsAfterShutdown ==
    /\ detExit ~> (statsPc = "returned" \/ detPc = "exited")
    /\ [](lateReports <= 1)
    /\ [](statsPc = "returned" => (detExit /\ detPc \in {"ended", "exited"}))
    /\ [](detExit => detPc \in {"ended", "exited"})

\* the reporting task returned by itself after one more report
C16_Witness ==
    /\ statsPc = "returned"
    /\ lateReports = 1
    /\ detPc = "ended"

\* C17: no captured traffic is lost from the statistics: whenever the
\* reporting task is not between a Report and its Reset, the totals logged
\* over all reports plus the current counters equal the totals over all
\* frames handled so far.
C17_NoStatsLost ==
    statsPc # "reset" => StatsSum(reported, stats) = handled

\* C18: the filter built from FilterList is "tcp" followed by one
\* "and not src <entry>" clause per entry in list order, so no frame whose
\* source is listed is ever classified; for the empty list it is the empty
\* filter, which passes every frame, TCP or not.
C18_FilterExcludesListed ==
    /\ Len(filterList) = 0 => (filter = <<>> /\ \A f \in Frames : Passes(filter, f))
    /\ Len(filterList) > 0
         => /\ Len(filter) = 1 + 2 * Len(filterList)
            /\ filter[1] = "tcp"
            /\ \A i \in 1..Len(filterList) :
                 /\ filter[2 * i] = "and not src"
                 /\ filter[2 * i + 1] = filterList[i]
    /\ lastPkt.kind = "frame"
         => \A i \in 1..Len(filterList) : lastPkt.frame.src # filterList[i]

\* with a source listed, a frame from an unlisted source was classified
C18_Witness ==
    /\ Len(filterList) > 0
    /\ lastPkt.kind = "frame"
    /\ lastPkt.frame.hasTCP
    /\ lastPkt.dV4 + lastPkt.dV6 > 0

DetNext ==
    \/ Capture
    \/ CaptureEnd
    \/ DetMainReturn
    \/ StatsReport
    \/ StatsReset
    \/ StatsCheckExit

DetSpec == DetInit /\ [][DetNext]_vars

\* one iteration step of spawnStatsThread
StatsStep == StatsReport \/ StatsReset \/ StatsCheckExit

\* the Go scheduler runs the reporting goroutine whenever it can take a step
\* (its sleep ends); when the capture source closes is up to the device
FairDetSpec == DetSpec /\ WF_vars(StatsStep)

====
